---------------------------- MODULE Spec2Model ----------------------------
(***************************************************************************)
(* A model of src/Main.c: main() and the libclang visitor() that walks the *)
(* AST of one translation unit, accumulates the complexity metrics and     *)
(* writes the DOT description of the tree.                                 *)
(*                                                                         *)
(* The AST is an ordered tree.  Its nodes are named by their pre-order     *)
(* position: 0 is the translation-unit cursor, 1..n are its descendants,   *)
(* so the children of a node, taken in increasing order, are its children  *)
(* from left to right.                                                     *)
(***************************************************************************)
EXTENDS Integers, Sequences, FiniteSets

\* Largest number of descendants of the translation-unit cursor.
MaxNodes == 2

\* int nodeStack[1024]
NodeStackSize == 1024

\* The cursor kinds visitor() tells apart; "Other" is every other kind.
Kinds == {"IfStmt", "ForStmt", "WhileStmt", "CaseStmt",
          "ConditionalOperator", "VarDecl", "Other"}

\* The cursor spellings of the modelled inputs, character by character: an
\* identifier, and the spellings of the string literals "s" and "\n", which
\* libclang gives with their quotes.
Labels == {<<"x">>}
LiteralLabels == {<<"x">>, <<"\"", "s", "\"">>, <<"\"", "\\", "n", "\"">>}

\* Largest number of nodes of the trees with literal spellings.
MaxLabelNodes == 1

\* The translation-unit cursor.
RootCursor == 0

VARIABLES
    argc,             \* main's argc
    pc,               \* the line main is at; "exit" once it has returned
    exitStatus,       \* main's return value; -1 while it runs
    dotFile,          \* the FILE* of ast.dot: "NULL", "open" or "closed"
    dotOut,           \* what has been written to ast.dot, record by record
    unit,             \* the CXTranslationUnit; valid = FALSE is NULL
    cyclomatic,       \* metrics.cyclomatic
    varDeclCount,     \* metrics.varDeclCount
    currentLoopDepth, \* metrics.currentLoopDepth
    maxLoopDepth,     \* metrics.maxLoopDepth
    nodeCounter,      \* metrics.nodeCounter
    nodeStack,        \* metrics.nodeStack, the slots written so far
    stackTop,         \* metrics.stackTop
    frames,           \* the active calls of visitor(), outermost first
    rootIdx,          \* children of the root cursor main's walk has visited
    stdout,           \* the lines printed on standard output
    stderr,           \* the messages printed on standard error
    removed,          \* the viewer command has deleted ast.svg and ast.dot
    faults,           \* what the environment made fail in this run
    visitLog,         \* the cursors visitor() was called on, in order
    emitLog,          \* the cursor of each node record, in emission order
    run,              \* which traversal of the tree this is
    first             \* the outcome of the first traversal

vars == <<argc, pc, exitStatus, dotFile, dotOut, unit, cyclomatic,
          varDeclCount, currentLoopDepth, maxLoopDepth, nodeCounter,
          nodeStack, stackTop, frames, rootIdx, stdout, stderr, removed,
          faults, visitLog, emitLog, run, first>>

metricsVars == <<cyclomatic, varDeclCount, currentLoopDepth, maxLoopDepth,
                 nodeCounter, nodeStack, stackTop>>
envVars == <<argc, unit, removed, faults, run, first>>
ioVars == <<dotFile, dotOut, stdout, stderr, exitStatus>>

-----------------------------------------------------------------------------
(* The input trees *)

RECURSIVE AncSelf(_, _)
\* Node i and its ancestors, the root cursor included.
AncSelf(par, i) == IF i = RootCursor THEN {RootCursor}
                   ELSE {i} \cup AncSelf(par, par[i])

\* The parent maps of the ordered trees with n descendants of the root, nodes
\* named in pre-order: the parent of i is i-1 or one of its ancestors.
ParentMaps(n) == {p \in [1..n -> 0..(n - 1)] :
                    /\ \A i \in 1..n : p[i] < i
                    /\ \A i \in 1..n : p[i] \in AncSelf(p, i - 1)}

NullUnit == [valid |-> FALSE, n |-> 0, parentOf |-> <<>>, kindOf |-> <<>>,
             spellingOf |-> <<>>]

TreeSet == UNION {{[valid |-> TRUE, n |-> n, parentOf |-> p, kindOf |-> k,
                    spellingOf |-> s] :
                     p \in ParentMaps(n), k \in [1..n -> Kinds],
                     s \in [1..n -> Labels]} : n \in 0..MaxNodes}

\* The spellings a cursor of kind k may have: a string literal is a cursor of
\* a kind visitor() does not tell apart.
SpellingsOf(k) == IF k = "Other" THEN LiteralLabels ELSE Labels

\* The trees whose cursors may be spelled like a string literal.
LiteralTreeSet ==
    UNION {{t \in [valid : {TRUE}, n : {n}, parentOf : ParentMaps(n),
                   kindOf : [1..n -> Kinds],
                   spellingOf : [1..n -> LiteralLabels]] :
              \A i \in 1..n : t.spellingOf[i] \in SpellingsOf(t.kindOf[i])} :
           n \in 1..MaxLabelNodes}

\* The children of cursor c, left to right.
ChildSet(t, c) == {i \in 1..t.n : t.parentOf[i] = c}

RECURSIVE SortedSeq(_)
SortedSeq(S) == IF S = {} THEN <<>>
                ELSE LET m == CHOOSE x \in S : \A y \in S : x <= y
                     IN <<m>> \o SortedSeq(S \ {m})

Children(t, c) == SortedSeq(ChildSet(t, c))

-----------------------------------------------------------------------------
(* visitor(): the classification of a cursor kind *)

\* A classification that forgets the conditional operator.
IsDecisionPointNoTernary(kind) == kind \in {"IfStmt", "ForStmt", "WhileStmt",
                                            "CaseStmt"}

IsDecisionPoint(kind) == kind \in {"IfStmt", "ForStmt", "WhileStmt",
                                   "CaseStmt", "ConditionalOperator"}

\* A comparison against the wrong cursor kind.
IsVarDeclWrongKind(kind) == kind = "Other"

IsVarDecl(kind) == kind = "VarDecl"

\* A loop test that forgets the while statement.
IsLoopKindForOnly(kind) == kind = "ForStmt"

IsLoopKind(kind) == kind \in {"ForStmt", "WhileStmt"}

\* nodeStack[i]: a slot not written yet holds the 0 of Metrics metrics = {0}.
StackAt(i) == IF i + 1 \in DOMAIN nodeStack THEN nodeStack[i + 1] ELSE 0

\* nodeStack[i] = v
StackPut(i, v) == IF i + 1 \in DOMAIN nodeStack
                  THEN [nodeStack EXCEPT ![i + 1] = v]
                  ELSE Append(nodeStack, v)

\* What printf's %s writes for a string: its characters, as they are.
FormatS(str) == str

\* "  node%d [label=\"%s\"];\n": the ID and the text between the quotes
NodeRecord(id, label) == [rec |-> "node", id |-> id, label |-> FormatS(label)]
EdgeRecord(from, to) == [rec |-> "edge", from |-> from, to |-> to]
OpenRecord == [rec |-> "digraph G {"]
CloseRecord == [rec |-> "}"]

\* The outcome of a traversal: the metrics, the allocator and the records.
Outcome(recs) == [set |-> TRUE, cyclomatic |-> cyclomatic,
                  varDeclCount |-> varDeclCount,
                  maxLoopDepth |-> maxLoopDepth,
                  currentLoopDepth |-> currentLoopDepth,
                  nodeCounter |-> nodeCounter, records |-> recs]

NoOutcome == [set |-> FALSE, cyclomatic |-> 0, varDeclCount |-> 0,
              maxLoopDepth |-> 0, currentLoopDepth |-> 0, nodeCounter |-> 0,
              records |-> <<>>]

IsNodeRec(r) == r.rec = "node"
IsEdgeRec(r) == r.rec = "edge"
IsGraphRec(r) == IsNodeRec(r) \/ IsEdgeRec(r)

\* The node and edge records the current traversal has written: those after
\* the header in the first traversal, those after the first traversal's in
\* the second.
WalkRecords ==
    SelectSeq(IF run = 1 THEN SubSeq(dotOut, 2, Len(dotOut))
              ELSE SubSeq(dotOut, 2 + Len(first.records), Len(dotOut)),
              IsGraphRec)

-----------------------------------------------------------------------------
Init ==
    /\ argc \in {1, 2}
    /\ pc = "L75"
    /\ exitStatus = -1
    /\ dotFile = "NULL"
    /\ dotOut = <<>>
    /\ unit = NullUnit
    /\ cyclomatic = 0
    /\ varDeclCount = 0
    /\ currentLoopDepth = 0
    /\ maxLoopDepth = 0
    /\ nodeCounter = 0
    /\ nodeStack = <<>>
    /\ stackTop = 0
    /\ frames = <<>>
    /\ rootIdx = 0
    /\ stdout = <<>>
    /\ stderr = <<>>
    /\ removed = FALSE
    /\ faults = {}
    /\ visitLog = <<>>
    /\ emitLog = <<>>
    /\ run = 1
    /\ first = NoOutcome

-----------------------------------------------------------------------------
(* main(), up to the traversal *)

\* return status from main
Return(status) == /\ exitStatus' = status
                  /\ pc' = "exit"

\* lines 75-78: the usage check
CheckArgs ==
    /\ pc = "L75"
    /\ IF argc < 2
       THEN /\ stderr' = Append(stderr, "Usage")
            /\ Return(1)
       ELSE /\ pc' = "L81"
            /\ UNCHANGED <<stderr, exitStatus>>
    /\ UNCHANGED <<dotFile, dotOut, stdout, metricsVars, envVars, frames,
                   rootIdx, visitLog, emitLog>>

\* lines 81-85: fopen("ast.dot", "w"), which may fail
OpenDot ==
    /\ pc = "L81"
    /\ \E ok \in BOOLEAN :
         IF ok
         THEN /\ dotFile' = "open"
              /\ dotOut' = <<>>
              /\ pc' = "L86"
              /\ UNCHANGED <<stderr, exitStatus, faults>>
         ELSE /\ faults' = faults \cup {"fopen"}
              /\ stderr' = Append(stderr, "fopen")
              /\ Return(1)
              /\ UNCHANGED <<dotFile, dotOut>>
    /\ UNCHANGED <<stdout, metricsVars, argc, unit, removed, run, first,
                   frames, rootIdx, visitLog, emitLog>>

\* line 86: the digraph header
WriteHeader ==
    /\ pc = "L86"
    /\ dotOut' = Append(dotOut, OpenRecord)
    /\ pc' = "L89"
    /\ UNCHANGED <<dotFile, stdout, stderr, exitStatus, metricsVars, envVars,
                   frames, rootIdx, visitLog, emitLog>>

\* lines 89-96: clang_parseTranslationUnit, which yields a tree or NULL
Parse ==
    /\ pc = "L89"
    /\ \E u \in TreeSet \cup {NullUnit} :
         /\ unit' = u
         /\ IF ~u.valid
            THEN /\ faults' = faults \cup {"parse"}
                 /\ stderr' = Append(stderr, "Unable to parse translation unit!")
                 /\ Return(1)
            ELSE /\ pc' = "L101"
                 /\ UNCHANGED <<faults, stderr, exitStatus>>
    /\ UNCHANGED <<dotFile, dotOut, stdout, metricsVars, argc, removed, run,
                   first, frames, rootIdx, visitLog, emitLog>>

\* An initialisation that leaves the allocator where it is.
MetricsInitKeepsCounter ==
    /\ cyclomatic' = 1
    /\ varDeclCount' = 0
    /\ currentLoopDepth' = 0
    /\ maxLoopDepth' = 0
    /\ nodeCounter' = nodeCounter
    /\ nodeStack' = <<>>
    /\ stackTop' = 0

\* An initialisation that seeds the stack with a slot for the root cursor.
MetricsInitSeedsStack ==
    /\ cyclomatic' = 1
    /\ varDeclCount' = 0
    /\ currentLoopDepth' = 0
    /\ maxLoopDepth' = 0
    /\ nodeCounter' = 0
    /\ nodeStack' = <<0>>
    /\ stackTop' = 1

\* lines 89-96 for a source file with string literals
ParseLiterals ==
    /\ pc = "L89"
    /\ \E u \in LiteralTreeSet : unit' = u
    /\ pc' = "L101"
    /\ UNCHANGED <<faults, stderr, exitStatus, dotFile, dotOut, stdout,
                   metricsVars, argc, removed, run, first, frames, rootIdx,
                   visitLog, emitLog>>

\* lines 101-108: Metrics metrics = {0} and the assignments after it
MetricsInit ==
    /\ cyclomatic' = 1
    /\ varDeclCount' = 0
    /\ currentLoopDepth' = 0
    /\ maxLoopDepth' = 0
    /\ nodeCounter' = 0
    /\ nodeStack' = <<>>
    /\ stackTop' = 0

InitMetrics ==
    /\ pc = "L101"
    /\ MetricsInit
    /\ pc' = "L111"
    /\ UNCHANGED <<ioVars, envVars, frames, rootIdx, visitLog, emitLog>>

-----------------------------------------------------------------------------
(* visitor() and clang_visitChildren *)

Top == frames[Len(frames)]

SetTop(f) == [frames EXCEPT ![Len(frames)] = f]

\* The cursor whose children clang_visitChildren is iterating, and how many
\* of them it has handed to visitor().
CurCursor == IF frames = <<>> THEN RootCursor ELSE Top.cursor
CurIdx == IF frames = <<>> THEN rootIdx ELSE Top.idx

\* The value of ++metrics->nodeCounter instead.
NextIdPreIncrement == nodeCounter + 1

\* int nodeId = metrics->nodeCounter++: the value of the expression
NextId == nodeCounter

\* clang_visitChildren (line 111 in main, line 61 in visitor) calls visitor()
\* on the next child; visitor() starts with line 20.
VisitorCall ==
    /\ pc = "L111"
    /\ IF frames = <<>> THEN TRUE ELSE Top.pc = "L61"
    /\ CurIdx < Len(Children(unit, CurCursor))
    /\ LET c == Children(unit, CurCursor)[CurIdx + 1]
           callee == [cursor |-> c, nodeId |-> NextId, kind |-> "unset",
                      isLoop |-> FALSE, idx |-> 0, pc |-> "L23"]
       IN /\ IF frames = <<>>
             THEN /\ rootIdx' = rootIdx + 1
                  /\ frames' = <<callee>>
             ELSE /\ rootIdx' = rootIdx
                  /\ frames' = Append(SetTop([Top EXCEPT !.idx = @ + 1]),
                                      callee)
          /\ visitLog' = Append(visitLog, c)
    /\ nodeCounter' = nodeCounter + 1
    /\ UNCHANGED <<pc, ioVars, envVars, cyclomatic, varDeclCount,
                   currentLoopDepth, maxLoopDepth, nodeStack, stackTop,
                   emitLog>>

\* lines 23-27: the node record
EmitNode ==
    /\ pc = "L111" /\ frames # <<>> /\ Top.pc = "L23"
    /\ dotOut' = Append(dotOut,
                        NodeRecord(Top.nodeId, unit.spellingOf[Top.cursor]))
    /\ emitLog' = Append(emitLog, Top.cursor)
    /\ frames' = SetTop([Top EXCEPT !.pc = "L30"])
    /\ UNCHANGED <<pc, dotFile, stdout, stderr, exitStatus, metricsVars,
                   envVars, rootIdx, visitLog>>

\* An edge written without looking at stackTop.
EmitEdgeUnguarded ==
    /\ pc = "L111" /\ frames # <<>> /\ Top.pc = "L30"
    /\ dotOut' = Append(dotOut, EdgeRecord(StackAt(stackTop - 1), Top.nodeId))
    /\ frames' = SetTop([Top EXCEPT !.pc = "L36"])
    /\ UNCHANGED <<pc, dotFile, stdout, stderr, exitStatus, metricsVars,
                   envVars, rootIdx, visitLog, emitLog>>

\* lines 30-33: the edge from the node on top of the stack
EmitEdge ==
    /\ pc = "L111" /\ frames # <<>> /\ Top.pc = "L30"
    /\ IF stackTop > 0
       THEN dotOut' = Append(dotOut,
                             EdgeRecord(StackAt(stackTop - 1), Top.nodeId))
       ELSE dotOut' = dotOut
    /\ frames' = SetTop([Top EXCEPT !.pc = "L36"])
    /\ UNCHANGED <<pc, dotFile, stdout, stderr, exitStatus, metricsVars,
                   envVars, rootIdx, visitLog, emitLog>>

\* A push that stores the ID and leaves stackTop where it is.
PushNoAdvance ==
    /\ pc = "L111" /\ frames # <<>> /\ Top.pc = "L36"
    /\ stackTop < NodeStackSize
    /\ nodeStack' = StackPut(stackTop, Top.nodeId)
    /\ frames' = SetTop([Top EXCEPT !.pc = "L39"])
    /\ UNCHANGED <<pc, ioVars, envVars, cyclomatic, varDeclCount,
                   currentLoopDepth, maxLoopDepth, nodeCounter, stackTop,
                   rootIdx, visitLog, emitLog>>

\* line 36: metrics->nodeStack[metrics->stackTop++] = nodeId.  The store is
\* inside the array while stackTop < NodeStackSize, which the trees of TreeSet
\* are too shallow to exceed.
Push ==
    /\ pc = "L111" /\ frames # <<>> /\ Top.pc = "L36"
    /\ stackTop < NodeStackSize
    /\ nodeStack' = StackPut(stackTop, Top.nodeId)
    /\ stackTop' = stackTop + 1
    /\ frames' = SetTop([Top EXCEPT !.pc = "L39"])
    /\ UNCHANGED <<pc, ioVars, envVars, cyclomatic, varDeclCount,
                   currentLoopDepth, maxLoopDepth, nodeCounter, rootIdx,
                   visitLog, emitLog>>

\* lines 39-50: the decision points and the variable declarations
Classify ==
    /\ pc = "L111" /\ frames # <<>> /\ Top.pc = "L39"
    /\ LET kind == unit.kindOf[Top.cursor]
       IN /\ cyclomatic' = IF IsDecisionPoint(kind) THEN cyclomatic + 1
                           ELSE cyclomatic
          /\ varDeclCount' = IF IsVarDecl(kind) THEN varDeclCount + 1
                             ELSE varDeclCount
          /\ frames' = SetTop([Top EXCEPT !.kind = kind, !.pc = "L53"])
    /\ UNCHANGED <<pc, ioVars, envVars, currentLoopDepth, maxLoopDepth,
                   nodeCounter, nodeStack, stackTop, rootIdx, visitLog,
                   emitLog>>

\* A maximum that counts the loops instead of tracking the nesting.
LoopEnterCumulative ==
    /\ pc = "L111" /\ frames # <<>> /\ Top.pc = "L53"
    /\ LET isLoop == IsLoopKind(Top.kind)
       IN /\ currentLoopDepth' = IF isLoop THEN currentLoopDepth + 1
                                 ELSE currentLoopDepth
          /\ maxLoopDepth' = IF isLoop THEN maxLoopDepth + 1
                             ELSE maxLoopDepth
          /\ frames' = SetTop([Top EXCEPT !.isLoop = isLoop, !.pc = "L61"])
    /\ UNCHANGED <<pc, ioVars, envVars, cyclomatic, varDeclCount,
                   nodeCounter, nodeStack, stackTop, rootIdx, visitLog,
                   emitLog>>

\* A loop entry that never raises the maximum.
LoopEnterNoMax ==
    /\ pc = "L111" /\ frames # <<>> /\ Top.pc = "L53"
    /\ LET isLoop == IsLoopKind(Top.kind)
       IN /\ currentLoopDepth' = IF isLoop THEN currentLoopDepth + 1
                                 ELSE currentLoopDepth
          /\ frames' = SetTop([Top EXCEPT !.isLoop = isLoop, !.pc = "L61"])
    /\ UNCHANGED <<pc, ioVars, envVars, cyclomatic, varDeclCount,
                   maxLoopDepth, nodeCounter, nodeStack, stackTop, rootIdx,
                   visitLog, emitLog>>

\* lines 53-58: entering a loop
LoopEnter ==
    /\ pc = "L111" /\ frames # <<>> /\ Top.pc = "L53"
    /\ LET isLoop == IsLoopKind(Top.kind)
       IN /\ currentLoopDepth' = IF isLoop THEN currentLoopDepth + 1
                                 ELSE currentLoopDepth
          /\ maxLoopDepth' = IF isLoop /\ currentLoopDepth + 1 > maxLoopDepth
                             THEN currentLoopDepth + 1
                             ELSE maxLoopDepth
          /\ frames' = SetTop([Top EXCEPT !.isLoop = isLoop, !.pc = "L61"])
    /\ UNCHANGED <<pc, ioVars, envVars, cyclomatic, varDeclCount,
                   nodeCounter, nodeStack, stackTop, rootIdx, visitLog,
                   emitLog>>

\* line 61: clang_visitChildren returns once every child has been visited
ChildrenDone ==
    /\ pc = "L111" /\ frames # <<>> /\ Top.pc = "L61"
    /\ Top.idx = Len(Children(unit, Top.cursor))
    /\ frames' = SetTop([Top EXCEPT !.pc = "L64"])
    /\ UNCHANGED <<pc, ioVars, envVars, metricsVars, rootIdx, visitLog,
                   emitLog>>

\* A decrement that is skipped for a loop without children.
LoopExitSkipsEmpty ==
    /\ pc = "L111" /\ frames # <<>> /\ Top.pc = "L64"
    /\ currentLoopDepth' = IF Top.isLoop /\ Top.idx > 0
                           THEN currentLoopDepth - 1
                           ELSE currentLoopDepth
    /\ frames' = SetTop([Top EXCEPT !.pc = "L69"])
    /\ UNCHANGED <<pc, ioVars, envVars, cyclomatic, varDeclCount,
                   maxLoopDepth, nodeCounter, nodeStack, stackTop, rootIdx,
                   visitLog, emitLog>>

\* lines 64-66: leaving a loop
LoopExit ==
    /\ pc = "L111" /\ frames # <<>> /\ Top.pc = "L64"
    /\ currentLoopDepth' = IF Top.isLoop THEN currentLoopDepth - 1
                           ELSE currentLoopDepth
    /\ frames' = SetTop([Top EXCEPT !.pc = "L69"])
    /\ UNCHANGED <<pc, ioVars, envVars, cyclomatic, varDeclCount,
                   maxLoopDepth, nodeCounter, nodeStack, stackTop, rootIdx,
                   visitLog, emitLog>>

\* A return that leaves the node on the stack.
PopKeepsTop ==
    /\ pc = "L111" /\ frames # <<>> /\ Top.pc = "L69"
    /\ frames' = SubSeq(frames, 1, Len(frames) - 1)
    /\ UNCHANGED <<pc, ioVars, envVars, metricsVars, rootIdx, visitLog,
                   emitLog>>

\* lines 69-71: metrics->stackTop-- and return CXChildVisit_Continue
Pop ==
    /\ pc = "L111" /\ frames # <<>> /\ Top.pc = "L69"
    /\ stackTop' = stackTop - 1
    /\ frames' = SubSeq(frames, 1, Len(frames) - 1)
    /\ UNCHANGED <<pc, ioVars, envVars, cyclomatic, varDeclCount,
                   currentLoopDepth, maxLoopDepth, nodeCounter, nodeStack,
                   rootIdx, visitLog, emitLog>>

-----------------------------------------------------------------------------
(* main(), after the traversal *)

\* The walk that line 111 started is over.
WalkOver == /\ pc = "L111"
            /\ frames = <<>>
            /\ rootIdx = Len(Children(unit, RootCursor))

\* line 111: clang_visitChildren(rootCursor, ...) returns
WalkDone ==
    /\ WalkOver
    /\ pc' = "L114"
    /\ UNCHANGED <<ioVars, envVars, metricsVars, frames, rootIdx, visitLog,
                   emitLog>>

\* line 114: the closing brace
WriteFooter ==
    /\ pc = "L114"
    /\ dotOut' = Append(dotOut, CloseRecord)
    /\ pc' = "L115"
    /\ UNCHANGED <<dotFile, stdout, stderr, exitStatus, metricsVars, envVars,
                   frames, rootIdx, visitLog, emitLog>>

\* line 115: fclose(dotFile)
CloseDot ==
    /\ pc = "L115"
    /\ dotFile' = "closed"
    /\ pc' = "L118"
    /\ UNCHANGED <<dotOut, stdout, stderr, exitStatus, metricsVars, envVars,
                   frames, rootIdx, visitLog, emitLog>>

\* A renderer failure that ends the run with status 1.
RenderSvgFatal ==
    /\ pc = "L118"
    /\ \E ok \in BOOLEAN :
         IF ok
         THEN /\ pc' = "L124"
              /\ UNCHANGED <<faults, stderr, exitStatus>>
         ELSE /\ faults' = faults \cup {"render"}
              /\ stderr' = Append(stderr, "Failed to convert DOT to SVG.")
              /\ Return(1)
    /\ UNCHANGED <<dotFile, dotOut, stdout, metricsVars, argc, unit, removed,
                   run, first, frames, rootIdx, visitLog, emitLog>>

\* lines 118-120: system("dot -Tsvg ast.dot -o ast.svg"), which may fail
RenderSvg ==
    /\ pc = "L118"
    /\ \E ok \in BOOLEAN :
         IF ok
         THEN UNCHANGED <<faults, stderr>>
         ELSE /\ faults' = faults \cup {"render"}
              /\ stderr' = Append(stderr, "Failed to convert DOT to SVG.")
    /\ pc' = "L124"
    /\ UNCHANGED <<exitStatus, dotFile, dotOut, stdout, metricsVars, argc,
                   unit, removed, run, first, frames, rootIdx, visitLog,
                   emitLog>>

\* A viewer failure that ends the run before the report.
ViewAndCleanupFatal ==
    /\ pc = "L124"
    /\ \E ok \in BOOLEAN :
         IF ok
         THEN /\ removed' = TRUE
              /\ pc' = "L129"
              /\ UNCHANGED <<faults, stderr, exitStatus>>
         ELSE /\ faults' = faults \cup {"viewer"}
              /\ stderr' = Append(stderr,
                                  "Failed to launch or delete the SVG file.")
              /\ Return(1)
              /\ UNCHANGED removed
    /\ UNCHANGED <<dotFile, dotOut, stdout, metricsVars, argc, unit, run,
                   first, frames, rootIdx, visitLog, emitLog>>

\* lines 124-126: the viewer command, which removes both files when it
\* succeeds, and may fail
ViewAndCleanup ==
    /\ pc = "L124"
    /\ \E ok \in BOOLEAN :
         IF ok
         THEN /\ removed' = TRUE
              /\ UNCHANGED <<faults, stderr>>
         ELSE /\ faults' = faults \cup {"viewer"}
              /\ stderr' = Append(stderr,
                                  "Failed to launch or delete the SVG file.")
              /\ UNCHANGED removed
    /\ pc' = "L129"
    /\ UNCHANGED <<exitStatus, dotFile, dotOut, stdout, metricsVars, argc,
                   unit, run, first, frames, rootIdx, visitLog, emitLog>>

\* lines 129-131: the three metrics lines
Report ==
    /\ pc = "L129"
    /\ stdout' = stdout \o
           << [line |-> "Cyclomatic Complexity", value |-> cyclomatic],
              [line |-> "Estimated Time Complexity", value |-> maxLoopDepth],
              [line |-> "Estimated Space Complexity", value |-> varDeclCount] >>
    /\ pc' = "L133"
    /\ UNCHANGED <<exitStatus, dotFile, dotOut, stderr, metricsVars, envVars,
                   frames, rootIdx, visitLog, emitLog>>

\* lines 133-136: dispose and return 0
Finish ==
    /\ pc = "L133"
    /\ Return(0)
    /\ UNCHANGED <<dotFile, dotOut, stdout, stderr, metricsVars, envVars,
                   frames, rootIdx, visitLog, emitLog>>

Visitor == \/ VisitorCall
           \/ EmitNode
           \/ EmitEdge
           \/ Push
           \/ Classify
           \/ LoopEnter
           \/ ChildrenDone
           \/ LoopExit
           \/ Pop

Next == \/ CheckArgs
        \/ OpenDot
        \/ WriteHeader
        \/ Parse
        \/ InitMetrics
        \/ Visitor
        \/ WalkDone
        \/ WriteFooter
        \/ CloseDot
        \/ RenderSvg
        \/ ViewAndCleanup
        \/ Report
        \/ Finish

Spec == Init /\ [][Next]_vars

-----------------------------------------------------------------------------
(* The runs over source files with string literals *)

NextLiterals == Next \/ ParseLiterals

SpecLiterals == Init /\ [][NextLiterals]_vars

-----------------------------------------------------------------------------
(* The runs in which libclang or the output stream reports a failure to    *)
(* visitor(), which reads none of the results that would carry it.         *)

\* line 39: clang_getCursorKind answers with one of the invalid kinds, which
\* is none of the kinds lines 40-53 compare with
KindQueryFails ==
    /\ pc = "L111" /\ frames # <<>> /\ Top.pc = "L39"
    /\ faults' = faults \cup {"query"}
    /\ frames' = SetTop([Top EXCEPT !.kind = "InvalidFile", !.pc = "L53"])
    /\ UNCHANGED <<pc, ioVars, metricsVars, argc, unit, removed, run, first,
                   rootIdx, visitLog, emitLog>>

\* line 61: clang_visitChildren returns non-zero with children left
\* unvisited; its result is discarded
VisitChildrenFails ==
    /\ pc = "L111" /\ frames # <<>> /\ Top.pc = "L61"
    /\ Top.idx < Len(Children(unit, Top.cursor))
    /\ faults' = faults \cup {"query"}
    /\ frames' = SetTop([Top EXCEPT !.pc = "L64"])
    /\ UNCHANGED <<pc, ioVars, metricsVars, argc, unit, removed, run, first,
                   rootIdx, visitLog, emitLog>>

\* line 26: fprintf fails and writes nothing; its result is discarded
NodeWriteFails ==
    /\ pc = "L111" /\ frames # <<>> /\ Top.pc = "L23"
    /\ faults' = faults \cup {"write"}
    /\ frames' = SetTop([Top EXCEPT !.pc = "L30"])
    /\ UNCHANGED <<pc, ioVars, metricsVars, argc, unit, removed, run, first,
                   rootIdx, visitLog, emitLog>>

\* line 32: fprintf fails and writes nothing; its result is discarded
EdgeWriteFails ==
    /\ pc = "L111" /\ frames # <<>> /\ Top.pc = "L30"
    /\ stackTop > 0
    /\ faults' = faults \cup {"write"}
    /\ frames' = SetTop([Top EXCEPT !.pc = "L36"])
    /\ UNCHANGED <<pc, ioVars, metricsVars, argc, unit, removed, run, first,
                   rootIdx, visitLog, emitLog>>

NextFaults == \/ Next
              \/ KindQueryFails
              \/ VisitChildrenFails
              \/ NodeWriteFails
              \/ EdgeWriteFails

SpecFaults == Init /\ [][NextFaults]_vars

-----------------------------------------------------------------------------
(* The runs on a tree deeper than nodeStack is long.                        *)

\* A chain of nested cursors one longer than nodeStack: cursor i + 1 is the
\* only child of cursor i.
DeepNodes == NodeStackSize + 1

DeepUnit == [valid |-> TRUE, n |-> DeepNodes,
             parentOf |-> [i \in 1..DeepNodes |-> i - 1],
             kindOf |-> [i \in 1..DeepNodes |-> "Other"],
             spellingOf |-> [i \in 1..DeepNodes |-> <<"x">>]]

\* lines 89-96 on a file whose tree is the chain
ParseDeep ==
    /\ pc = "L89"
    /\ unit' = DeepUnit
    /\ pc' = "L101"
    /\ UNCHANGED <<faults, stderr, exitStatus, dotFile, dotOut, stdout,
                   metricsVars, argc, removed, run, first, frames, rootIdx,
                   visitLog, emitLog>>

\* line 36 with stackTop >= NodeStackSize: the store is outside nodeStack,
\* which is undefined.  nodeStack[NodeStackSize] is where the member declared
\* after the array, stackTop, lies, so the store and the increment write the
\* same int in either order; a store further out hits memory that is not
\* Metrics' and leaves the increment, or ends the process with a signal.
PushOverflow ==
    /\ pc = "L111" /\ frames # <<>> /\ Top.pc = "L36"
    /\ stackTop >= NodeStackSize
    /\ \/ /\ stackTop' = stackTop + 1
          /\ frames' = SetTop([Top EXCEPT !.pc = "L39"])
          /\ UNCHANGED <<pc, exitStatus>>
       \/ /\ stackTop = NodeStackSize
          /\ stackTop' = Top.nodeId
          /\ frames' = SetTop([Top EXCEPT !.pc = "L39"])
          /\ UNCHANGED <<pc, exitStatus>>
       \/ /\ Return(139)
          /\ UNCHANGED <<stackTop, frames>>
    /\ UNCHANGED <<dotFile, dotOut, stdout, stderr, envVars, cyclomatic,
                   varDeclCount, currentLoopDepth, maxLoopDepth, nodeCounter,
                   nodeStack, rootIdx, visitLog, emitLog>>

\* The state of the walk of the chain when visitor() on cursor k has reached
\* line 61: k nested calls, the IDs 0..k-1 allocated, written and pushed.
DeepWalk(k) ==
    /\ argc = 2
    /\ pc = "L111"
    /\ exitStatus = -1
    /\ dotFile = "open"
    /\ dotOut = [j \in 1..(2 * k) |->
                   IF j = 1 THEN OpenRecord
                   ELSE IF j = 2 THEN NodeRecord(0, <<"x">>)
                   ELSE IF j % 2 = 1
                        THEN NodeRecord((j - 1) \div 2, <<"x">>)
                        ELSE EdgeRecord((j \div 2) - 2, (j \div 2) - 1)]
    /\ unit = DeepUnit
    /\ cyclomatic = 1
    /\ varDeclCount = 0
    /\ currentLoopDepth = 0
    /\ maxLoopDepth = 0
    /\ nodeCounter = k
    /\ nodeStack = [i \in 1..k |-> i - 1]
    /\ stackTop = k
    /\ frames = [i \in 1..k |->
                   [cursor |-> i, nodeId |-> i - 1, kind |-> "Other",
                    isLoop |-> FALSE, idx |-> IF i < k THEN 1 ELSE 0,
                    pc |-> "L61"]]
    /\ rootIdx = 1
    /\ stdout = <<>>
    /\ stderr = <<>>
    /\ removed = FALSE
    /\ faults = {}
    /\ visitLog = [i \in 1..k |-> i]
    /\ emitLog = [i \in 1..k |-> i]
    /\ run = 1
    /\ first = NoOutcome

\* The runs start with main(); the walk of the chain is also entered where
\* it is one call short of filling nodeStack, a state the run on the chain
\* passes through.
InitDeep == Init \/ DeepWalk(NodeStackSize - 1)

NextDeep == \/ Next
            \/ ParseDeep
            \/ PushOverflow

SpecDeep == InitDeep /\ [][NextDeep]_vars

-----------------------------------------------------------------------------
(* The traversal run a second time over the same tree: lines 101-111 are   *)
(* executed again once the first walk has returned, on the same stream.    *)

Rerun ==
    /\ pc = "L114"
    /\ run = 1
    /\ first' = Outcome(WalkRecords)
    /\ run' = 2
    /\ MetricsInit
    /\ rootIdx' = 0
    /\ visitLog' = <<>>
    /\ emitLog' = <<>>
    /\ pc' = "L111"
    /\ UNCHANGED <<ioVars, argc, unit, removed, faults, frames>>

NextTwice == Next \/ Rerun

SpecTwice == Init /\ [][NextTwice]_vars

-----------------------------------------------------------------------------
(* What the claims speak of, read off the input tree and the output *)

\* The traversal in progress, and the traversal complete: main is past the
\* return of line 111's clang_visitChildren.
Walking == pc = "L111"
WalkComplete == \/ WalkOver
                \/ pc \in {"L114", "L115", "L118", "L124", "L129", "L133"}
                \/ pc = "exit" /\ unit.valid

\* The nodes of the tree below the translation-unit cursor.
TreeNodes == 1..unit.n

DecisionNodes == {i \in TreeNodes :
                    unit.kindOf[i] \in {"IfStmt", "ForStmt", "WhileStmt",
                                        "CaseStmt", "ConditionalOperator"}}

LoopNodes == {i \in TreeNodes : unit.kindOf[i] \in {"ForStmt", "WhileStmt"}}

VarDeclNodes == {i \in TreeNodes : unit.kindOf[i] = "VarDecl"}

\* The loop nodes on the path from the root to node i, i included.
LoopsAbove(i) == AncSelf(unit.parentOf, i) \cap LoopNodes

\* The depth below the root cursor of node i.
Depth(i) == Cardinality(AncSelf(unit.parentOf, i)) - 1

SetMax(S) == IF S = {} THEN 0 ELSE CHOOSE x \in S : \A y \in S : y <= x

NestingDepth == SetMax({Cardinality(LoopsAbove(i)) : i \in LoopNodes})

\* C1: cyclomatic is at least 1 throughout the walk and after it, and once
\* the walk is complete it is 1 plus the number of nodes that are an if, a
\* for, a while, a case label or a conditional operator (so 1 without any).
C1_Cyclomatic ==
    /\ (Walking \/ WalkComplete) => cyclomatic >= 1
    /\ WalkComplete => cyclomatic = 1 + Cardinality(DecisionNodes)

C1_Witness == /\ WalkComplete
              /\ unit.n = 2
              /\ \E i \in TreeNodes : unit.kindOf[i] = "ConditionalOperator"
              /\ \E i \in TreeNodes : unit.kindOf[i] = "VarDecl"
              /\ cyclomatic = 2

\* C2: once the walk is complete maxLoopDepth is the largest number of loop
\* nodes on a path from the root to a loop node, that node included, and 0
\* when the tree has no loop node.
C2_MaxLoopDepth == WalkComplete => maxLoopDepth = NestingDepth

C2_Witness == /\ WalkComplete
              /\ Cardinality(LoopNodes) = 2
              /\ NestingDepth = 1
              /\ maxLoopDepth = 1

\* C3: once the walk is complete varDeclCount is the number of variable
\* declaration nodes of the tree, at whatever depth they are.
C3_VarDeclCount == WalkComplete => varDeclCount = Cardinality(VarDeclNodes)

C3_Witness == /\ WalkComplete
              /\ varDeclCount = 2
              /\ \E i, j \in VarDeclNodes : Depth(i) = 1 /\ Depth(j) = 2

\* C4: once the walk is complete currentLoopDepth is 0, for nested loops and
\* for loops without children too.
C4_LoopDepthRestored == WalkComplete => currentLoopDepth = 0

C4_Witness == /\ WalkComplete
              /\ currentLoopDepth = 0
              /\ \E i \in LoopNodes :
                    /\ Cardinality(LoopsAbove(i)) = 2
                    /\ ChildSet(unit, i) = {}

\* The node records and the edge records of the traversal, as written.
NodeRecs == SelectSeq(WalkRecords, IsNodeRec)
EdgeRecs == SelectSeq(WalkRecords, IsEdgeRec)

Range(q) == {q[i] : i \in 1..Len(q)}

\* The cursors that have a node record, and the ID in the record of one.
Emitted == Range(emitLog)
IdOf(c) == NodeRecs[CHOOSE i \in 1..Len(emitLog) : emitLog[i] = c].id

EdgePairs == {<<e.from, e.to>> : e \in Range(EdgeRecs)}

\* The edges into the record of cursor c.
EdgesInto(c) == {k \in 1..Len(EdgeRecs) : EdgeRecs[k].to = IdOf(c)}

RootChildren == ChildSet(unit, RootCursor)

\* The parent-child pairs of the tree below the root cursor, by record ID.
InnerPairs == {<<IdOf(unit.parentOf[c]), IdOf(c)>> : c \in TreeNodes \ RootChildren}

\* Every edge record follows the node records of both its endpoints.
EndpointsEmitted ==
    \A k \in 1..Len(dotOut) :
        IsEdgeRec(dotOut[k]) =>
            /\ \E i \in 1..(k - 1) : /\ IsNodeRec(dotOut[i])
                                     /\ dotOut[i].id = dotOut[k].from
            /\ \E j \in 1..(k - 1) : /\ IsNodeRec(dotOut[j])
                                     /\ dotOut[j].id = dotOut[k].to

C7_NodeRecords ==
    /\ Len(NodeRecs) = Len(emitLog)
    /\ \A i \in 1..Len(NodeRecs) : NodeRecs[i].id = i - 1
    /\ \A i, j \in 1..Len(emitLog) : i # j => emitLog[i] # emitLog[j]
    /\ Len(emitLog) <= Len(visitLog)
    /\ \A i \in 1..Len(emitLog) : emitLog[i] = visitLog[i]
    /\ \A j \in 1..Len(emitLog) :
          \A a \in AncSelf(unit.parentOf, emitLog[j]) \ {RootCursor, emitLog[j]} :
              \E i \in 1..(j - 1) : emitLog[i] = a
    /\ WalkComplete =>
          /\ Len(NodeRecs) = Len(visitLog)
          /\ Range(visitLog) = TreeNodes
          /\ Len(NodeRecs) = nodeCounter

C7_Witness == /\ WalkComplete
              /\ Len(NodeRecs) = 2
              /\ nodeCounter = 2
              /\ \E i \in TreeNodes : Depth(i) = 2

UsageError == argc < 2
OpenFailure == "fopen" \in faults
ParseFailure == "parse" \in faults

\* C9: main returns non-zero exactly when the input path is missing, ast.dot
\* cannot be opened or the parse fails, and zero in every other run, whether
\* or not the renderer and the viewer commands succeed.
C9_ExitStatus ==
    pc = "exit" =>
        /\ exitStatus \in {0, 1}
        /\ exitStatus # 0 <=> (UsageError \/ OpenFailure \/ ParseFailure)

C9_Witness == /\ pc = "exit"
              /\ exitStatus = 0
              /\ faults = {"render", "viewer"}
              /\ Len(stderr) = 2

\* C10: a run in which the parse fails returns non-zero with nothing
\* written to ast.dot and no metrics line on standard output.
C10_NothingWritten ==
    (pc = "exit" /\ ParseFailure) =>
        /\ exitStatus # 0
        /\ dotOut = <<>>
        /\ stdout = <<>>

\* C11: ast.dot is open while the tree is walked, and every run that opened
\* it has closed it by the time main returns.
C11_ClosedOnExit ==
    /\ Walking => dotFile = "open"
    /\ (pc = "exit" /\ ~UsageError /\ ~OpenFailure) => dotFile = "closed"

\* The three lines of the report, from the tree alone.
ExpectedReport ==
    << [line |-> "Cyclomatic Complexity",
        value |-> 1 + Cardinality(DecisionNodes)],
       [line |-> "Estimated Time Complexity", value |-> NestingDepth],
       [line |-> "Estimated Space Complexity",
        value |-> Cardinality(VarDeclNodes)] >>

\* The renderer and viewer failures of this run.
ToolFailures == faults \cap {"render", "viewer"}

\* C13: a run whose parse succeeded ends with the three metrics lines on
\* standard output, their values those of the tree whatever the renderer
\* and the viewer commands did; each of their failures adds one warning on
\* standard error and nothing else.
C13_ReportUnaffected ==
    /\ (pc = "L133" \/ (pc = "exit" /\ unit.valid)) => stdout = ExpectedReport
    /\ (pc = "exit" /\ unit.valid) =>
          /\ Len(stderr) = Cardinality(ToolFailures)
          /\ ToolFailures = faults

C13_Witness == /\ pc = "exit"
               /\ unit.n = 2
               /\ faults = {"viewer", "render"}
               /\ Len(stdout) = 3
               /\ stdout[1].value = 2
               /\ stdout[2].value = 1

\* The parent stack: nodeStack[0 .. stackTop-1], bottom first.
LiveStack == [i \in 1..stackTop |-> StackAt(i - 1)]

\* A call of visitor() that is past line 36 has pushed its node.
HasPushed(f) == f.pc \in {"L39", "L53", "L61", "L64", "L69"}
PushedFrames == SelectSeq(frames, HasPushed)

\* The parent of cursor c.
ParentOf(c) == unit.parentOf[c]

\* C16: at every point of the walk the parent stack holds the IDs of the
\* nodes on the path from the outermost visited ancestor to the node being
\* processed, in that order, the current node included once it is pushed; a
\* node is pushed after its record and its edge are written and popped after
\* all its children have been visited; the stack is empty once the walk is
\* complete.
C16_ParentStack ==
    /\ stackTop >= 0
    /\ LiveStack = [i \in 1..Len(PushedFrames) |-> PushedFrames[i].nodeId]
    /\ \A k \in 1..Len(frames) :
          /\ ParentOf(frames[k].cursor) =
                IF k = 1 THEN RootCursor ELSE frames[k - 1].cursor
          /\ k < Len(frames) => frames[k].pc = "L61"
          /\ frames[k].cursor \in Emitted =>
                IdOf(frames[k].cursor) = frames[k].nodeId
    /\ \A k \in 1..Len(frames) :
          (frames[k].pc = "L36" \/ HasPushed(frames[k])) =>
              /\ frames[k].cursor \in Emitted
              /\ k > 1 => <<frames[k - 1].nodeId, frames[k].nodeId>> \in EdgePairs
    /\ \A k \in 1..Len(frames) :
          frames[k].pc \in {"L64", "L69"} =>
              /\ frames[k].idx = Len(Children(unit, frames[k].cursor))
              /\ ChildSet(unit, frames[k].cursor) \subseteq Range(visitLog)
    /\ WalkComplete => stackTop = 0

C16_Witness == /\ Walking
               /\ Len(frames) = 2
               /\ Top.pc = "L61"
               /\ stackTop = 2
               /\ LiveStack = <<0, 1>>

\* The number of loop nodes among cursor c and its ancestors.
LoopCount(c) == Cardinality(LoopsAbove(c))

\* C18, as claimed: from the allocation of its ID to its pop,
\* currentLoopDepth is the number of loop nodes among the node being
\* processed and its ancestors.
C18_Original ==
    (Walking /\ frames # <<>>) => currentLoopDepth = LoopCount(Top.cursor)

\* C18: currentLoopDepth is the number of loop nodes among the ancestors of
\* the node being processed, plus one for the node itself when it is a loop
\* between its increment (line 55) and its decrement (line 65), that is
\* while its children are visited; from the allocation of its ID to the
\* increment, and from the decrement to the pop, a loop node is not counted.
C18_LoopDepthOnPath ==
    (Walking /\ frames # <<>>) =>
        currentLoopDepth = IF Top.pc \in {"L61", "L64"}
                           THEN LoopCount(Top.cursor)
                           ELSE LoopCount(ParentOf(Top.cursor))

C18_Witness == /\ Walking
               /\ Len(frames) = 2
               /\ Top.pc = "L61"
               /\ currentLoopDepth = 2
               /\ LoopCount(Top.cursor) = 2

\* The call on top is at line 64 with a loop node.
LeavingLoop == /\ Walking
               /\ frames # <<>>
               /\ Top.pc = "L64"
               /\ Top.cursor \in LoopNodes

\* C19: maxLoopDepth never decreases, 0 <= currentLoopDepth <= maxLoopDepth
\* in every state, and currentLoopDepth goes down only by one, at line 65 of
\* a loop node whose children have all been visited, which every loop node
\* passes.
C19_HighWaterMark ==
    /\ [](0 <= currentLoopDepth /\ currentLoopDepth <= maxLoopDepth)
    /\ [][maxLoopDepth' >= maxLoopDepth]_vars
    /\ [][currentLoopDepth' < currentLoopDepth =>
            /\ currentLoopDepth' = currentLoopDepth - 1
            /\ LeavingLoop
            /\ Top.idx = Len(Children(unit, Top.cursor))
            /\ ChildSet(unit, Top.cursor) \subseteq Range(visitLog)]_vars
    /\ [][LeavingLoop => currentLoopDepth' = currentLoopDepth - 1]_vars

C19_Witness == /\ Walking
               /\ Len(frames) = 2
               /\ Top.pc = "L69"
               /\ Top.cursor \in LoopNodes
               /\ currentLoopDepth = 1
               /\ maxLoopDepth = 2

\* The node records no edge record points to.
Orphans == {i \in 1..Len(NodeRecs) :
              \A k \in 1..Len(EdgeRecs) : EdgeRecs[k].to # NodeRecs[i].id}

\* C20: visitor is called on the descendants of the translation-unit cursor
\* only: the root cursor is never visited and has no node record, a child of
\* the root is emitted with the parent stack empty and gets no edge, and
\* once the walk is complete the node records without an incoming edge are
\* as many as the children of the root.
C20_RootNotVisited ==
    /\ RootCursor \notin Range(visitLog)
    /\ RootCursor \notin Emitted
    /\ Range(visitLog) \subseteq TreeNodes
    /\ \A k \in 1..Len(frames) :
          (frames[k].cursor \in RootChildren
              /\ frames[k].pc \in {"L23", "L30", "L36"}) => stackTop = 0
    /\ \A c \in RootChildren \cap Emitted : EdgesInto(c) = {}
    /\ WalkComplete => Cardinality(Orphans) = Cardinality(RootChildren)

C20_Witness == /\ WalkComplete
               /\ unit.n = 2
               /\ Cardinality(RootChildren) = 1
               /\ Cardinality(Orphans) = 1
               /\ Len(EdgeRecs) = 1

RECURSIVE WellEscaped(_)
\* The text stays inside a DOT quoted string: every double quote and every
\* backslash of it is the second character of a backslash pair.
WellEscaped(text) ==
    IF text = <<>> THEN TRUE
    ELSE IF Head(text) = "\\"
         THEN /\ Len(text) >= 2
              /\ text[2] \in {"\\", "\""}
              /\ WellEscaped(SubSeq(text, 3, Len(text)))
         ELSE /\ Head(text) # "\""
              /\ WellEscaped(Tail(text))

\* C12: the label attribute of every node record written holds no unescaped
\* double quote and no unescaped backslash, whatever the cursor's spelling.
C12_LabelsEscaped ==
    \A k \in 1..Len(dotOut) :
        IsNodeRec(dotOut[k]) => WellEscaped(dotOut[k].label)

QueryFailed == "query" \in faults
WriteFailed == "write" \in faults

\* C14: once a query of the tree has failed for a node, no further node is
\* visited and no metrics line is printed.
C14_QueryFailureAborts ==
    [][QueryFailed => (visitLog' = visitLog /\ stdout' = stdout)]_vars

\* C15: once the write of a node or edge record has failed, no further node
\* is visited, the graph is not closed with its brace as if it were
\* complete, and main does not return 0.
C15_WriteFailureFatal ==
    /\ [][WriteFailed => visitLog' = visitLog]_vars
    /\ [](WriteFailed => \A k \in 1..Len(dotOut) : dotOut[k] # CloseRecord)
    /\ []((WriteFailed /\ pc = "exit") => exitStatus # 0)


\* C17: whenever visitor() is about to store at nodeStack[stackTop] (line 36)
\* or to read nodeStack[stackTop - 1] (line 31), the index is inside the
\* array.
C17_StackInBounds ==
    (Walking /\ frames # <<>>) =>
        /\ Top.pc = "L36" => (0 <= stackTop /\ stackTop < NodeStackSize)
        /\ (Top.pc = "L30" /\ stackTop > 0) => stackTop - 1 < NodeStackSize

=============================================================================
